---- MODULE Spec2Model ----
(***************************************************************************)
(* Model of aoc2024-1 (src/aoc2024-1/src/main.rs): a two-column file of    *)
(* integers is parsed into a left and a right list (read_data_from_file),  *)
(* part1 prints the total distance of the sorted lists and part2 prints    *)
(* the similarity score.                                                   *)
(*                                                                         *)
(* A line of text is a sequence of one-character strings.  The file is a   *)
(* sequence of line events, as BufRead::lines() yields them: either        *)
(* a line that was read, or the Err item of a read that failed.  A failed   *)
(* read either consumed its line (ReadErr: invalid UTF-8) or consumed      *)
(* nothing (StuckErr: the read itself fails, as on a directory), and then  *)
(* lines() yields the same Err again on every later call.                  *)
(*                                                                         *)
(* i32 arithmetic keeps its width.  An overflowing operation panics in a   *)
(* build with overflow checks ("debug") and wraps modulo 2^32 otherwise    *)
(* ("release"); the build is chosen in Init.  A computation's outcome is   *)
(* a record [panic |-> BOOLEAN, val |-> i32].                              *)
(***************************************************************************)
EXTENDS Integers, Sequences, FiniteSets, TLC

VARIABLES
    build,            \* "debug" (overflow checks) or "release" (wrapping)
    file,             \* the line events of 1.txt
    pos,              \* number of line events the current reader has consumed
    left_list,        \* left_list of the running read_data_from_file / of the caller
    right_list,       \* right_list, likewise
    pc,               \* position in main / part1 / part2
    status,           \* "running", "ok", "io_error", "panic"
    output,           \* lines printed to standard output
    total_distance,   \* outcome of calculate_total_distance
    similarity_score  \* outcome of calculate_similarity_score

vars == <<build, file, pos, left_list, right_list, pc, status, output,
          total_distance, similarity_score>>

(***************************************************************************)
(* Bounds of the model.                                                    *)
(***************************************************************************)
MaxLines == 2      \* line events per enumerated file
MaxLineLen == 3    \* characters per enumerated line
MaxLen == 2        \* elements per enumerated input list of the calculators

(***************************************************************************)
(* i32                                                                     *)
(***************************************************************************)
MAXI == 2147483647
MINI == (-MAXI) - 1

Builds == {"debug", "release"}

Val(v) == [panic |-> FALSE, val |-> v]
Panic == [panic |-> TRUE, val |-> 0]

AddOverflows(a, b) == IF b >= 0 THEN a > MAXI - b ELSE a < MINI - b
SubOverflows(a, b) == IF b >= 0 THEN a < MINI + b ELSE a > MAXI + b

\* a + b modulo 2^32, computed without leaving the i32 range
wrapping_add(a, b) ==
    IF ~AddOverflows(a, b) THEN a + b
    ELSE IF b >= 0 THEN ((a - MAXI) + (b - MAXI)) - 2
    ELSE (a - MINI) + (b - MINI)

\* a - b modulo 2^32
wrapping_sub(a, b) ==
    IF ~SubOverflows(a, b) THEN a - b
    ELSE IF b >= 0 THEN ((a - MINI) + (MAXI - b)) + 1
    ELSE ((a - MAXI) + (MINI - b)) - 1

\* `a + b` on i32 as the build compiles it
add_i32(a, b) ==
    IF AddOverflows(a, b)
    THEN (IF build = "debug" THEN Panic ELSE Val(wrapping_add(a, b)))
    ELSE Val(a + b)

\* `a - b` on i32
sub_i32(a, b) ==
    IF SubOverflows(a, b)
    THEN (IF build = "debug" THEN Panic ELSE Val(wrapping_sub(a, b)))
    ELSE Val(a - b)

\* i32::abs: abs(i32::MIN) overflows
abs_i32(a) ==
    IF a = MINI
    THEN (IF build = "debug" THEN Panic ELSE Val(MINI))
    ELSE Val(IF a < 0 THEN -a ELSE a)

\* `a * n` on i32 for a count n >= 0, as n additions of a: the product is in
\* range iff every partial sum is, and it wraps as the sum wraps
RECURSIVE mul_i32(_, _)
mul_i32(a, n) ==
    IF n = 0 THEN Val(0)
    ELSE LET p == mul_i32(a, n - 1)
         IN  IF p.panic THEN Panic ELSE add_i32(p.val, a)

(***************************************************************************)
(* str::split_whitespace and str::parse::<i32>                             *)
(***************************************************************************)
Digits == <<"0", "1", "2", "3", "4", "5", "6", "7", "8", "9">>

IsDigit(c) == \E i \in 1..10 : Digits[i] = c
DigitVal(c) == (CHOOSE i \in 1..10 : Digits[i] = c) - 1
\* char::is_whitespace: the Unicode White_Space characters U+0009..U+000D,
\* U+0020, U+0085, U+00A0, U+1680, U+2000..U+200A, U+2028, U+2029, U+202F,
\* U+205F and U+3000.  A character is a one-character string; a character
\* at or above U+2000 is written by its name, "U+2000".
IsWhitespace(c) ==
    c \in {"\t", "\n", "", "\f", "\r", " ", "", " ", " ",
           "U+2000", "U+2001", "U+2002", "U+2003", "U+2004", "U+2005", "U+2006", "U+2007",
           "U+2008", "U+2009", "U+200A", "U+2028", "U+2029", "U+202F", "U+205F", "U+3000"}

\* tokens of `record`: maximal runs of non-whitespace characters, in order
RECURSIVE SplitFrom(_, _, _)
SplitFrom(record, i, cur) ==
    IF i > Len(record)
    THEN (IF cur = <<>> THEN <<>> ELSE <<cur>>)
    ELSE IF IsWhitespace(record[i])
         THEN (IF cur = <<>> THEN SplitFrom(record, i + 1, <<>>)
                             ELSE <<cur>> \o SplitFrom(record, i + 1, <<>>))
         ELSE SplitFrom(record, i + 1, Append(cur, record[i]))

split_whitespace(record) == SplitFrom(record, 1, <<>>)

ParseOk(v) == [ok |-> TRUE, val |-> v]
ParseErr == [ok |-> FALSE, val |-> 0]

\* digit loop of from_str_radix: checked multiply by 10, then checked add
\* (positive) or checked subtract (negative) of the digit
RECURSIVE ParseDigits(_, _, _, _)
ParseDigits(tok, i, acc, negative) ==
    IF i > Len(tok) THEN ParseOk(acc)
    ELSE IF ~IsDigit(tok[i]) THEN ParseErr
    ELSE LET d == DigitVal(tok[i])
         IN  IF negative
             THEN IF acc < -(MAXI \div 10) THEN ParseErr
                  ELSE IF SubOverflows(acc * 10, d) THEN ParseErr
                  ELSE ParseDigits(tok, i + 1, (acc * 10) - d, negative)
             ELSE IF acc > MAXI \div 10 THEN ParseErr
                  ELSE IF AddOverflows(acc * 10, d) THEN ParseErr
                  ELSE ParseDigits(tok, i + 1, (acc * 10) + d, negative)

\* x.parse::<i32>(): optional sign, then at least one decimal digit, in range
parse_i32(tok) ==
    IF tok = <<>> THEN ParseErr
    ELSE IF tok[1] \in {"+", "-"}
         THEN (IF Len(tok) = 1 THEN ParseErr
               ELSE ParseDigits(tok, 2, 0, tok[1] = "-"))
         ELSE ParseDigits(tok, 1, 0, FALSE)

\* .filter_map(|x| x.parse::<i32>().ok()).collect()
RECURSIVE filter_map_parse(_)
filter_map_parse(toks) ==
    IF toks = <<>> THEN <<>>
    ELSE LET p == parse_i32(Head(toks))
         IN  (IF p.ok THEN <<p.val>> ELSE <<>>) \o filter_map_parse(Tail(toks))

\* the `numbers` vector of a successfully read line
numbers_of(record) == filter_map_parse(split_whitespace(record))

(***************************************************************************)
(* calculate_total_distance                                                *)
(***************************************************************************)
\* insert v into the ascending sequence s, keeping it ascending
RECURSIVE Insert(_, _)
Insert(s, v) ==
    IF s = <<>> THEN <<v>>
    ELSE IF v < Head(s) THEN <<v>> \o s
    ELSE <<Head(s)>> \o Insert(Tail(s), v)

\* Vec<i32>::sort(): the elements in ascending order
RECURSIVE sort(_)
sort(s) == IF s = <<>> THEN <<>> ELSE Insert(sort(SubSeq(s, 1, Len(s) - 1)), s[Len(s)])

\* .iter().zip(..).map(|(l, r)| (l - r).abs()).sum(), from pair i on, with
\* the accumulator acc: zip ends with the shorter sequence
RECURSIVE SumAbsDiff(_, _, _, _)
SumAbsDiff(l, r, i, acc) ==
    IF i > Len(l) \/ i > Len(r) THEN Val(acc)
    ELSE LET d == sub_i32(l[i], r[i])
         IN  IF d.panic THEN Panic
             ELSE LET a == abs_i32(d.val)
                  IN  IF a.panic THEN Panic
                      ELSE LET t == add_i32(acc, a.val)
                           IN  IF t.panic THEN Panic
                               ELSE SumAbsDiff(l, r, i + 1, t.val)

\* calculate_total_distance without `right_list.sort()`
calculate_total_distance_sortLeftOnly(left, right) ==
    SumAbsDiff(sort(left), right, 1, 0)

calculate_total_distance(left, right) ==
    SumAbsDiff(sort(left), sort(right), 1, 0)

(***************************************************************************)
(* calculate_similarity_score                                              *)
(***************************************************************************)
\* the HashMap right_counts after the first loop over the first n elements
RECURSIVE right_counts_of(_, _)
right_counts_of(right, n) ==
    IF n = 0 THEN << >>
    ELSE LET m == right_counts_of(right, n - 1)
             num == right[n]
         IN  IF num \in DOMAIN m
             THEN [m EXCEPT ![num] = @ + 1]
             ELSE [k \in DOMAIN m \cup {num} |-> IF k = num THEN 0 + 1 ELSE m[k]]

\* the second loop from element i on: add num * count only if num is a key
RECURSIVE ScoreLoop(_, _, _, _)
ScoreLoop(left, counts, i, score) ==
    IF i > Len(left) THEN Val(score)
    ELSE LET num == left[i]
         IN  IF num \in DOMAIN counts
             THEN LET p == mul_i32(num, counts[num])
                  IN  IF p.panic THEN Panic
                      ELSE LET t == add_i32(score, p.val)
                           IN  IF t.panic THEN Panic
                               ELSE ScoreLoop(left, counts, i + 1, t.val)
             ELSE ScoreLoop(left, counts, i + 1, score)

calculate_similarity_score(left, right) ==
    ScoreLoop(left, right_counts_of(right, Len(right)), 1, 0)

(***************************************************************************)
(* Input files                                                             *)
(***************************************************************************)
Line(text) == [ok |-> TRUE, text |-> text, consumed |-> TRUE]
ReadErr == [ok |-> FALSE, text |-> <<>>, consumed |-> TRUE]
StuckErr == [ok |-> FALSE, text |-> <<>>, consumed |-> FALSE]

Alphabet == {"1", "2", "-", " "}

\* every sequence over S of length at most n
SeqsUpTo(S, n) == UNION {[1..k -> S] : k \in 0..n}

\* every line of at most MaxLineLen characters over Alphabet
EnumeratedLines == {Line(t) : t \in SeqsUpTo(Alphabet, MaxLineLen)}

Line_3_4 == Line(<<"3", " ", " ", " ", "4">>)
Line_4_3 == Line(<<"4", " ", "3">>)
Line_2_5 == Line(<<"2", " ", "5">>)
Line_1_3 == Line(<<"1", " ", "3">>)
Line_3_9 == Line(<<"3", " ", "9">>)
Line_3_3 == Line(<<"3", " ", "3">>)
Line_3s4 == Line(<<"3", " ", "4">>)
Line_notanumber == Line(<<"n", "o", "t", "a", "n", "u", "m", "b", "e", "r">>)
Line_5 == Line(<<"5">>)
Line_1_2_3 == Line(<<"1", " ", "2", " ", "3">>)
Line_x_1_2 == Line(<<"x", " ", "1", " ", "2">>)
Line_plus7_tab_minus0 == Line(<<"+", "7", "\t", "-", "0", " ">>)
Line_007_1x == Line(<<"0", "0", "7", " ", "1", "x">>)
Line_3_cr_4 == Line(<<"3", "\r", "4">>)
Line_3_4_cr == Line(<<"3", " ", "4", "\r">>)
Line_7_nbsp_8_ff == Line(<<"7", " ", "8", "\f", "">>)
Line_1_em_2_vt_x == Line(<<"1", "U+2003", "2", "", "x", " ">>)
MaxText == <<"2", "1", "4", "7", "4", "8", "3", "6", "4", "7">>
Line_max_minus1 == Line(MaxText \o <<" ", "-", "1">>)
Line_max_max == Line(MaxText \o <<" ">> \o MaxText)
Line_min_0 ==
    Line(<<"-", "2", "1", "4", "7", "4", "8", "3", "6", "4", "8", " ", "0">>)
Line_toobig_1 ==
    Line(<<"2", "1", "4", "7", "4", "8", "3", "6", "4", "8", " ", "1">>)
Line_toosmall_1 ==
    Line(<<"-", "2", "1", "4", "7", "4", "8", "3", "6", "4", "9", " ", "1">>)

\* the two inputs of the specification's parser scenarios
ExampleFile == <<Line_3_4, Line_4_3, Line_2_5, Line_1_3, Line_3_9, Line_3_3>>
MalformedFile == <<Line_3s4, Line_notanumber, Line_5, Line_1_2_3>>

\* line events that are combined freely into files
CoreEvents == {ReadErr, StuckErr, Line_3_4, Line_5, Line_1_2_3, Line_x_1_2}

CorpusEvents ==
    CoreEvents \cup
    {Line_4_3, Line_notanumber, Line_plus7_tab_minus0, Line_007_1x,
     Line_3_cr_4, Line_3_4_cr, Line_7_nbsp_8_ff, Line_1_em_2_vt_x,
     Line_max_minus1, Line_max_max, Line_min_0, Line_toobig_1, Line_toosmall_1}

\* files of read_data_from_file: any line event, anywhere among at most
\* MaxLines - 1 core events
ParseFiles ==
    {<<>>, ExampleFile, MalformedFile} \cup
    {fg[1] \o <<e>> \o fg[2] :
        fg \in {x \in SeqsUpTo(CoreEvents, MaxLines - 1) \X SeqsUpTo(CoreEvents, MaxLines - 1) :
                    Len(x[1]) + Len(x[2]) <= MaxLines - 1},
        e \in CorpusEvents \cup EnumeratedLines}

\* files of whole program runs
MainFiles ==
    {ExampleFile, MalformedFile,
     <<Line_max_minus1>>, <<Line_max_max, Line_max_max>>, <<Line_min_0, ReadErr>>, <<StuckErr>>}
    \cup SeqsUpTo(CoreEvents, MaxLines)

(***************************************************************************)
(* read_data_from_file                                                     *)
(***************************************************************************)
At(p, stage) == <<p, stage>>

\* ProcessLine with the length test `numbers.len() >= 2`
ProcessLine_atLeastTwo(lists, item) ==
    IF item.ok
    THEN LET numbers == numbers_of(item.text)
         IN  IF Len(numbers) >= 2
             THEN <<Append(lists[1], numbers[1]), Append(lists[2], numbers[2])>>
             ELSE lists
    ELSE lists

\* ProcessLine that parses the first two tokens and wants both to parse
ProcessLine_firstTwoTokens(lists, item) ==
    IF item.ok
    THEN LET toks == split_whitespace(item.text)
         IN  IF Len(toks) >= 2 /\ parse_i32(toks[1]).ok /\ parse_i32(toks[2]).ok
             THEN <<Append(lists[1], parse_i32(toks[1]).val),
                    Append(lists[2], parse_i32(toks[2]).val)>>
             ELSE lists
    ELSE lists

\* ProcessLine that pushes each number as soon as it is there
ProcessLine_oneSided(lists, item) ==
    IF item.ok
    THEN LET numbers == numbers_of(item.text)
         IN  <<IF Len(numbers) >= 1 THEN Append(lists[1], numbers[1]) ELSE lists[1],
               IF Len(numbers) = 2 THEN Append(lists[2], numbers[2]) ELSE lists[2]>>
    ELSE lists

\* one iteration of `for line in reader.lines()`: the lists after `item`
ProcessLine(lists, item) ==
    IF item.ok
    THEN LET numbers == numbers_of(item.text)
         IN  IF Len(numbers) = 2
             THEN <<Append(lists[1], numbers[1]), Append(lists[2], numbers[2])>>
             ELSE lists
    ELSE lists

\* OpenFile in a main that drops the error of a part and goes on
OpenFile_swallowFailure(p) ==
    /\ pc = At(p, "open")
    /\ status = "running"
    /\ \/ /\ pc' = At(p, "read")
          /\ pos' = 0
          /\ left_list' = <<>>
          /\ right_list' = <<>>
       \/ /\ pc' = IF p = 1 THEN At(2, "open") ELSE At(2, "return")
          /\ UNCHANGED <<pos, left_list, right_list>>
    /\ UNCHANGED <<build, file, status, output, total_distance, similarity_score>>

\* File::open(filename)?; the two vectors start empty.  A failure returns
\* through part1/part2 and main: the process ends with the error.
OpenFile(p) ==
    /\ pc = At(p, "open")
    /\ status = "running"
    /\ \/ /\ pc' = At(p, "read")
          /\ pos' = 0
          /\ left_list' = <<>>
          /\ right_list' = <<>>
          /\ UNCHANGED status
       \/ /\ status' = "io_error"
          /\ UNCHANGED <<pc, pos, left_list, right_list>>
    /\ UNCHANGED <<build, file, output, total_distance, similarity_score>>

\* the whole loop over events[1..n], from empty vectors: whether it ends, and
\* the two vectors.  At an Err whose read consumed nothing the same Err comes
\* again on every iteration: the loop never ends and no later event is met.
RECURSIVE ReadLoop(_, _)
ReadLoop(events, n) ==
    IF n = 0 THEN [ends |-> TRUE, lists |-> <<(<<>>), (<<>>)>>]
    ELSE LET before == ReadLoop(events, n - 1)
         IN  IF ~before.ends THEN before
             ELSE [ends |-> events[n].consumed,
                   lists |-> ProcessLine(before.lists, events[n])]

\* read_data_from_file on a file it could open: whether it returns, and the
\* lists of its Ok((left_list, right_list))
read_data_from_file(events) ==
    LET loop == ReadLoop(events, Len(events))
    IN  [returns |-> loop.ends, lists |-> loop.lists]

\* one iteration of the loop: an Err item is dropped by `if let Ok`; the
\* reader is past the line unless the read consumed nothing, and then the
\* next iteration meets the same Err and the loop never ends
ReadLine(p) ==
    /\ pc = At(p, "read")
    /\ status = "running"
    /\ pos < Len(file)
    /\ LET lists == ProcessLine(<<left_list, right_list>>, file[pos + 1])
       IN  /\ left_list' = lists[1]
           /\ right_list' = lists[2]
    /\ pos' = IF file[pos + 1].consumed THEN pos + 1 ELSE pos
    /\ UNCHANGED <<build, file, pc, status, output, total_distance, similarity_score>>

\* Ok((left_list, right_list))
ReadReturn(p) ==
    /\ pc = At(p, "read")
    /\ status = "running"
    /\ pos = Len(file)
    /\ pc' = At(p, "calc")
    /\ UNCHANGED <<build, file, pos, left_list, right_list, status, output,
                   total_distance, similarity_score>>

(***************************************************************************)
(* part1, part2, main                                                      *)
(***************************************************************************)
\* the labels of the two println! lines
DistanceLabel == "Distance totale"
ScoreLabel == "Score de similarité"

Part1Calc ==
    /\ pc = At(1, "calc")
    /\ status = "running"
    /\ LET o == calculate_total_distance(left_list, right_list)
       IN  IF o.panic
           THEN /\ status' = "panic"
                /\ UNCHANGED <<pc, total_distance>>
           ELSE /\ total_distance' = o
                /\ pc' = At(1, "print")
                /\ UNCHANGED status
    /\ UNCHANGED <<build, file, pos, left_list, right_list, output, similarity_score>>

\* println!: the line is written to standard output, or the write fails and
\* println! panics ("failed printing to stdout", exit status 101).  After a
\* failed write the line is lost ("panic"), or it stays in the buffer and
\* reaches standard output when the process exits ("panic_flushed").
PrintOutcomes == {"written", "panic", "panic_flushed"}

Part1Print ==
    /\ pc = At(1, "print")
    /\ status = "running"
    /\ \E outcome \in PrintOutcomes :
          /\ output' = IF outcome = "panic" THEN output
                       ELSE Append(output, [label |-> DistanceLabel,
                                            value |-> total_distance.val])
          /\ pc' = IF outcome = "written" THEN At(2, "open") ELSE pc
          /\ status' = IF outcome = "written" THEN status ELSE "panic"
    /\ UNCHANGED <<build, file, pos, left_list, right_list,
                   total_distance, similarity_score>>

Part2Calc ==
    /\ pc = At(2, "calc")
    /\ status = "running"
    /\ LET o == calculate_similarity_score(left_list, right_list)
       IN  IF o.panic
           THEN /\ status' = "panic"
                /\ UNCHANGED <<pc, similarity_score>>
           ELSE /\ similarity_score' = o
                /\ pc' = At(2, "print")
                /\ UNCHANGED status
    /\ UNCHANGED <<build, file, pos, left_list, right_list, output, total_distance>>

Part2Print ==
    /\ pc = At(2, "print")
    /\ status = "running"
    /\ \E outcome \in PrintOutcomes :
          /\ output' = IF outcome = "panic" THEN output
                       ELSE Append(output, [label |-> ScoreLabel,
                                            value |-> similarity_score.val])
          /\ pc' = IF outcome = "written" THEN At(2, "return") ELSE pc
          /\ status' = IF outcome = "written" THEN status ELSE "panic"
    /\ UNCHANGED <<build, file, pos, left_list, right_list,
                   total_distance, similarity_score>>

\* main's final Ok(())
MainReturn ==
    /\ pc = At(2, "return")
    /\ status = "running"
    /\ status' = "ok"
    /\ UNCHANGED <<build, file, pos, left_list, right_list, pc, output,
                   total_distance, similarity_score>>

Init ==
    /\ build \in Builds
    /\ file \in MainFiles
    /\ pos = 0
    /\ left_list = <<>>
    /\ right_list = <<>>
    /\ pc = At(1, "open")
    /\ status = "running"
    /\ output = <<>>
    /\ total_distance = Val(0)
    /\ similarity_score = Val(0)

Next ==
    \/ OpenFile(1) \/ ReadLine(1) \/ ReadReturn(1) \/ Part1Calc \/ Part1Print
    \/ OpenFile(2) \/ ReadLine(2) \/ ReadReturn(2) \/ Part2Calc \/ Part2Print
    \/ MainReturn

Spec == Init /\ [][Next]_vars

(***************************************************************************)
(* read_data_from_file alone, on every enumerated file                     *)
(***************************************************************************)
InitParse ==
    /\ build = "debug"
    /\ file \in ParseFiles
    /\ pos = 0
    /\ left_list = <<>>
    /\ right_list = <<>>
    /\ pc = At(1, "open")
    /\ status = "running"
    /\ output = <<>>
    /\ total_distance = Val(0)
    /\ similarity_score = Val(0)

NextParse == OpenFile(1) \/ ReadLine(1) \/ ReadReturn(1)

SpecParse == InitParse /\ [][NextParse]_vars

(***************************************************************************)
(* The two calculators alone, on every enumerated pair of lists            *)
(***************************************************************************)
CalcValues == {MINI, -1, 0, 1, 3, MAXI}

ExampleLeft == <<3, 4, 2, 1, 3, 3>>
ExampleRight == <<4, 3, 5, 3, 9, 3>>

CalcLists == SeqsUpTo(CalcValues, MaxLen) \cup {ExampleLeft, ExampleRight}

CallDistance ==
    /\ pc = At(0, "call")
    /\ total_distance' = calculate_total_distance(left_list, right_list)
    /\ pc' = At(0, "distance")
    /\ UNCHANGED <<build, file, pos, left_list, right_list, status, output,
                   similarity_score>>

CallSimilarity ==
    /\ pc = At(0, "call")
    /\ similarity_score' = calculate_similarity_score(left_list, right_list)
    /\ pc' = At(0, "similarity")
    /\ UNCHANGED <<build, file, pos, left_list, right_list, status, output,
                   total_distance>>

InitCalc ==
    /\ build \in Builds
    /\ file = <<>>
    /\ pos = 0
    /\ left_list \in CalcLists
    /\ right_list \in CalcLists
    /\ pc = At(0, "call")
    /\ status = "running"
    /\ output = <<>>
    /\ total_distance = Val(0)
    /\ similarity_score = Val(0)

NextCalc == CallDistance \/ CallSimilarity

SpecCalc == InitCalc /\ [][NextCalc]_vars

(***************************************************************************)
(* Reference definitions the claims are stated with.  They restate the     *)
(* specification's words and share nothing with the operators above.       *)
(***************************************************************************)
\* the characters with the Unicode property White_Space
WhiteSpace ==
    {"\t", "\n", "", "\f", "\r", " ", "", " ", " "} \cup
    {"U+2000", "U+2001", "U+2002", "U+2003", "U+2004", "U+2005", "U+2006", "U+2007"} \cup
    {"U+2008", "U+2009", "U+200A", "U+2028", "U+2029", "U+202F", "U+205F", "U+3000"}

\* the start positions of the whitespace-separated tokens of a line
TokenStarts(text) ==
    {i \in 1..Len(text) :
        /\ text[i] \notin WhiteSpace
        /\ (i = 1 \/ text[i - 1] \in WhiteSpace)}

\* the last position of the token that starts at i
TokenEnd(text, i) ==
    CHOOSE j \in i..Len(text) :
        /\ \A k \in i..j : text[k] \notin WhiteSpace
        /\ (j = Len(text) \/ text[j + 1] \in WhiteSpace)

\* the elements of the set S of integers, ascending
RECURSIVE Ascending(_)
Ascending(S) ==
    IF S = {} THEN <<>>
    ELSE LET m == CHOOSE x \in S : \A y \in S : x <= y
         IN  <<m>> \o Ascending(S \ {m})

TokensOf(text) ==
    LET starts == Ascending(TokenStarts(text))
    IN  [n \in 1..Len(starts) |-> SubSeq(text, starts[n], TokenEnd(text, starts[n]))]

DecimalDigits == {"0", "1", "2", "3", "4", "5", "6", "7", "8", "9"}
DigitValue(c) ==
    CASE c = "0" -> 0 [] c = "1" -> 1 [] c = "2" -> 2 [] c = "3" -> 3 [] c = "4" -> 4
      [] c = "5" -> 5 [] c = "6" -> 6 [] c = "7" -> 7 [] c = "8" -> 8 [] c = "9" -> 9

\* the digits of a token after its optional sign
DigitsPart(tok) == IF tok # <<>> /\ tok[1] \in {"+", "-"} THEN Tail(tok) ELSE tok
IsNegativeText(tok) == tok # <<>> /\ tok[1] = "-"

RECURSIVE StripZeros(_)
StripZeros(ds) == IF ds # <<>> /\ Head(ds) = "0" THEN StripZeros(Tail(ds)) ELSE ds

\* a <= b for two digit strings of the same length
RECURSIVE DigitsLeq(_, _)
DigitsLeq(a, b) ==
    IF a = <<>> THEN TRUE
    ELSE IF DigitValue(Head(a)) < DigitValue(Head(b)) THEN TRUE
    ELSE IF DigitValue(Head(a)) > DigitValue(Head(b)) THEN FALSE
    ELSE DigitsLeq(Tail(a), Tail(b))

MaxMagnitude == <<"2", "1", "4", "7", "4", "8", "3", "6", "4", "7">>
MinMagnitude == <<"2", "1", "4", "7", "4", "8", "3", "6", "4", "8">>

\* the token is the decimal text of an integer in [-2^31, 2^31 - 1]
IsI32Text(tok) ==
    LET ds == DigitsPart(tok)
        sig == StripZeros(ds)
    IN  /\ ds # <<>>
        /\ \A i \in 1..Len(ds) : ds[i] \in DecimalDigits
        /\ \/ Len(sig) < 10
           \/ /\ Len(sig) = 10
              /\ DigitsLeq(sig, IF IsNegativeText(tok) THEN MinMagnitude ELSE MaxMagnitude)

\* the integer an i32 text denotes: signed digit times power of ten, summed
\* from the least significant digit
RECURSIVE SignedValue(_, _)
SignedValue(sig, sign) ==
    IF sig = <<>> THEN 0
    ELSE SignedValue(Tail(sig), sign) + (sign * DigitValue(Head(sig))) * 10 ^ (Len(sig) - 1)

I32Value(tok) ==
    SignedValue(StripZeros(DigitsPart(tok)), IF IsNegativeText(tok) THEN -1 ELSE 1)

\* the integers of the tokens of a line that are i32 texts, in token order
ParseableIntegers(text) ==
    LET toks == TokensOf(text)
        good == Ascending({n \in 1..Len(toks) : IsI32Text(toks[n])})
    IN  [n \in 1..Len(good) |-> I32Value(toks[good[n]])]

\* the pairs the lines events[1..n] contribute under the exactly-two rule;
\* a line that could not be read contributes nothing
RECURSIVE ExactlyTwoPairs(_, _)
ExactlyTwoPairs(events, n) ==
    IF n = 0 THEN <<>>
    ELSE LET ints == IF events[n].ok THEN ParseableIntegers(events[n].text) ELSE <<>>
         IN  ExactlyTwoPairs(events, n - 1)
                \o (IF Len(ints) = 2 THEN <<ints>> ELSE <<>>)

\* the pairs under the at-least-two rule: the first two parseable integers
RECURSIVE AtLeastTwoPairs(_, _)
AtLeastTwoPairs(events, n) ==
    IF n = 0 THEN <<>>
    ELSE LET ints == IF events[n].ok THEN ParseableIntegers(events[n].text) ELSE <<>>
         IN  AtLeastTwoPairs(events, n - 1)
                \o (IF Len(ints) >= 2 THEN <<SubSeq(ints, 1, 2)>> ELSE <<>>)

\* left_list and right_list zipped
ListPairs == [i \in 1..Len(left_list) |-> <<left_list[i], right_list[i]>>]

Reading == pc[2] \in {"read", "calc"}
Returned == pc = At(1, "calc")
LineJustRead == file[pos]

(***************************************************************************)
(* Claims about read_data_from_file, checked under SpecParse               *)
(***************************************************************************)
OkEvents(events) == SelectSeq(events, LAMBDA e : e.ok)
SomeReadError == \E i \in 1..Len(file) : ~file[i].ok

\* C1: a read error on any line makes the whole call fail with an I/O error;
\* the call never returns Ok with lists built from the other lines, and once
\* the loop has met a line that could not be read the call has failed.
C1_ReadErrorFailsCall ==
    /\ Returned => ~SomeReadError
    /\ (Reading /\ \E i \in 1..pos : ~file[i].ok) => status = "io_error"

\* What the code does instead.  Only opening the file fails the call; a line
\* whose read error consumed it is skipped and the call returns Ok with the
\* lists the readable lines alone give; a read error that consumes nothing
\* keeps the loop from ever returning.
ReadErrorNeverFailsCall ==
    /\ status = "io_error" => pc = At(1, "open")
    /\ Returned =>
        /\ read_data_from_file(file) = [returns |-> TRUE, lists |-> <<left_list, right_list>>]
        /\ read_data_from_file(OkEvents(file)) = read_data_from_file(file)
        /\ \A i \in 1..Len(file) : file[i].consumed
    /\ (Reading /\ pos < Len(file) /\ ~file[pos + 1].consumed) =>
        /\ ~Returned
        /\ read_data_from_file(file) = [returns |-> FALSE, lists |-> <<left_list, right_list>>]

ReturnedOkDespiteReadError ==
    /\ Returned
    /\ SomeReadError
    /\ Len(left_list) >= 1
    /\ file[Len(file)].ok

StuckInReadLoop ==
    /\ pc = At(1, "read")
    /\ status = "running"
    /\ pos = 1
    /\ Len(file) = 2
    /\ file[2] = StuckErr

\* C2: after any prefix of the lines, left and right hold, in row order, the
\* two integers of exactly those readable lines whose tokens that are i32
\* texts number exactly two; every other line appends nothing.
C2_ExactlyTwoRule ==
    Reading =>
        LET e == ExactlyTwoPairs(file, pos)
        IN  /\ left_list = [i \in 1..Len(e) |-> e[i][1]]
            /\ right_list = [i \in 1..Len(e) |-> e[i][2]]

C2_Witness ==
    /\ Returned
    /\ file = MalformedFile
    /\ left_list = <<3>>
    /\ right_list = <<4>>

\* C3, as stated: a line is kept whenever it has at least two tokens that
\* parse, its first two parseable integers becoming the left and right value.
C3_AtLeastTwoKept ==
    Reading =>
        LET e == AtLeastTwoPairs(file, pos)
        IN  /\ left_list = [i \in 1..Len(e) |-> e[i][1]]
            /\ right_list = [i \in 1..Len(e) |-> e[i][2]]

\* C3, amended: a line is kept if and only if exactly two of its tokens
\* parse; then these two become the left and right value and the extra
\* tokens, which do not parse, are ignored.  A line with three or more
\* parseable tokens is dropped, like one with fewer than two.
C3_ExtraTokens ==
    [][(pc = At(1, "read") /\ pos' = pos + 1 /\ file[pos'].ok)
        => LET ints == ParseableIntegers(file[pos'].text)
           IN  IF Len(ints) = 2
               THEN /\ left_list' = Append(left_list, ints[1])
                    /\ right_list' = Append(right_list, ints[2])
               ELSE UNCHANGED <<left_list, right_list>>]_vars

C3_Witness ==
    /\ Reading
    /\ pos > 0
    /\ LineJustRead.ok
    /\ Len(TokensOf(LineJustRead.text)) > 2
    /\ Len(ParseableIntegers(LineJustRead.text)) = 2
    /\ left_list # <<>>
    /\ <<left_list[Len(left_list)], right_list[Len(right_list)]>>
            = ParseableIntegers(LineJustRead.text)

\* positions among the first pos lines of the lines that were kept
KeptPositions ==
    Ascending({j \in 1..pos :
        file[j].ok /\ Len(ParseableIntegers(file[j].text)) = 2})

\* C4: after any prefix of the lines left and right have the same length,
\* and index i of both holds the two values of the i-th kept line.
C4_EqualLength ==
    /\ Len(left_list) = Len(right_list)
    /\ Reading =>
        /\ Len(left_list) = Len(KeptPositions)
        /\ \A i \in 1..Len(KeptPositions) :
              ParseableIntegers(file[KeptPositions[i]].text) = <<left_list[i], right_list[i]>>

C4_Witness ==
    /\ Returned
    /\ Len(left_list) = Len(right_list)
    /\ Len(left_list) >= 1
    /\ Len(left_list) < Len(file)
    /\ left_list[1] # right_list[1]

(***************************************************************************)
(* Mathematical integers beyond 32 bits: <<q, r>> stands for q * 2^30 + r  *)
(* with 0 <= r < 2^30.                                                     *)
(***************************************************************************)
Base == 2 ^ 30
Big(x) == <<x \div Base, x % Base>>
BigNorm(q, r) == <<q + (r \div Base), r % Base>>
BigAdd(a, b) == BigNorm(a[1] + b[1], a[2] + b[2])
BigSub(a, b) == BigNorm(a[1] - b[1], a[2] - b[2])
BigAbs(a) == IF a[1] >= 0 THEN a ELSE BigSub(<<0, 0>>, a)
\* a fits i32: -2 * 2^30 <= a < 2 * 2^30
BigFits(a) == a[1] \in {-2, -1, 0, 1}

RECURSIVE BigTimes(_, _)
BigTimes(a, n) == IF n = 0 THEN <<0, 0>> ELSE BigAdd(BigTimes(a, n - 1), a)

\* s in ascending order: its k-th element is the value with fewer than k
\* elements below it and at least k elements not above it
SortedOf(s) ==
    [k \in 1..Len(s) |->
        CHOOSE v \in {s[i] : i \in 1..Len(s)} :
            /\ Cardinality({i \in 1..Len(s) : s[i] < v}) < k
            /\ Cardinality({i \in 1..Len(s) : s[i] <= v}) >= k]

MinLen(l, r) == IF Len(l) <= Len(r) THEN Len(l) ELSE Len(r)

\* sum over i in 1..n of |SL[i] - SR[i]|
RECURSIVE MathDistanceUpTo(_, _, _)
MathDistanceUpTo(sl, sr, n) ==
    IF n = 0 THEN <<0, 0>>
    ELSE BigAdd(MathDistanceUpTo(sl, sr, n - 1), BigAbs(BigSub(Big(sl[n]), Big(sr[n]))))

MathDistance(l, r) == MathDistanceUpTo(SortedOf(l), SortedOf(r), MinLen(l, r))

Occurrences(s, v) == Cardinality({j \in 1..Len(s) : s[j] = v})

\* sum over the first n occurrences v of l of v * (occurrences of v in r)
RECURSIVE MathScoreUpTo(_, _, _)
MathScoreUpTo(l, r, n) ==
    IF n = 0 THEN <<0, 0>>
    ELSE BigAdd(MathScoreUpTo(l, r, n - 1), BigTimes(Big(l[n]), Occurrences(r, l[n])))

MathScore(l, r) == MathScoreUpTo(l, r, Len(l))

IsPermutation(l, r) ==
    /\ Len(l) = Len(r)
    /\ \A v \in {l[i] : i \in 1..Len(l)} \cup {r[i] : i \in 1..Len(r)} :
          Occurrences(l, v) = Occurrences(r, v)

DistanceCalled == pc = At(0, "distance")
SimilarityCalled == pc = At(0, "similarity")
AllNonNegative(s) == \A i \in 1..Len(s) : s[i] >= 0

(***************************************************************************)
(* Claims about the calculators, checked under SpecCalc                    *)
(***************************************************************************)
\* C5: for every pair of i32 sequences the returned distance equals the sum,
\* over i up to the shorter length, of |SL[i] - SR[i]| for the ascending
\* SL and SR (a run that panics returns nothing and is not judged).
C5_DistanceIsSortedPairSum ==
    (DistanceCalled /\ ~total_distance.panic)
        => Big(total_distance.val) = MathDistance(left_list, right_list)

\* Where the sum fits i32 the code does return it, in both builds: sorting,
\* pairing up to the shorter length and the example value 11 are as C5 says.
DistanceExactWhenSumFits ==
    (DistanceCalled /\ BigFits(MathDistance(left_list, right_list)))
        => /\ ~total_distance.panic
           /\ Big(total_distance.val) = MathDistance(left_list, right_list)

DistanceExample ==
    (DistanceCalled /\ left_list = ExampleLeft /\ right_list = ExampleRight)
        => total_distance = Val(11)

\* C7: the returned distance is >= 0 and is the true sum of the absolute
\* differences: no subtraction, abs or accumulation wrapped around.
C7_DistanceNeverWraps ==
    (DistanceCalled /\ ~total_distance.panic)
        => /\ total_distance.val >= 0
           /\ BigFits(MathDistance(left_list, right_list))
           /\ Big(total_distance.val) = MathDistance(left_list, right_list)

\* C9: for equal-length L and R the distance of (L, R) is the distance of
\* (R, L), and it is 0 when L and R are permutations of each other.
C9_SymmetricAndZeroOnPermutations ==
    (DistanceCalled /\ Len(left_list) = Len(right_list))
        => /\ total_distance = calculate_total_distance(right_list, left_list)
           /\ IsPermutation(left_list, right_list) => total_distance = Val(0)

C9_Witness ==
    /\ DistanceCalled
    /\ Len(left_list) = 2
    /\ left_list # right_list
    /\ IsPermutation(left_list, right_list)
    /\ total_distance = Val(0)

\* a state with equal lengths, no permutation, and a non-zero distance that
\* the swapped call gives too
C9_SymmetryCase ==
    /\ DistanceCalled
    /\ Len(left_list) = 2
    /\ Len(right_list) = 2
    /\ ~IsPermutation(left_list, right_list)
    /\ ~total_distance.panic
    /\ total_distance.val > 0

\* C6: for every pair of i32 sequences the returned score equals the sum,
\* over every occurrence v in left, of v times the occurrences of v in right
\* (a run that panics returns nothing and is not judged).
C6_ScoreIsWeightedSum ==
    (SimilarityCalled /\ ~similarity_score.panic)
        => Big(similarity_score.val) = MathScore(left_list, right_list)

\* The parts of C6 that hold of the code in both builds: an empty right list
\* gives 0, the example gives 31, and the score is the weighted sum when all
\* values are non-negative and the sum fits i32.
ScoreZeroOnEmptyRight ==
    (SimilarityCalled /\ right_list = <<>>) => similarity_score = Val(0)

ScoreExample ==
    (SimilarityCalled /\ left_list = ExampleLeft /\ right_list = ExampleRight)
        => similarity_score = Val(31)

ScoreExactWhenSumFits ==
    (SimilarityCalled /\ AllNonNegative(left_list)
            /\ BigFits(MathScore(left_list, right_list)))
        => /\ ~similarity_score.panic
           /\ Big(similarity_score.val) = MathScore(left_list, right_list)

\* C8: when all values of L and R are non-negative the returned score is >= 0.
C8_ScoreNonNegative ==
    (SimilarityCalled /\ ~similarity_score.panic
            /\ AllNonNegative(left_list) /\ AllNonNegative(right_list))
        => similarity_score.val >= 0

(***************************************************************************)
(* Claim about main, checked under Spec                                    *)
(***************************************************************************)
Labels == [i \in 1..Len(output) |-> output[i].label]

\* C10: part1 has parsed, computed and printed before part2 opens the file;
\* a failed parse of part1 ends the program with nothing printed and part2
\* never run; a failed parse of part2 ends it failed after part1's line;
\* the program ends successfully only with both lines printed, part1's first.
C10_Part1ThenPart2 ==
    /\ (pc[1] = 1 /\ status # "panic") => Labels = <<>>
    /\ pc[1] = 1 => (pc[2] # "print" => Labels = <<>>) /\ Len(Labels) <= 1
    /\ pc[1] = 2 => Len(Labels) >= 1 /\ Labels[1] = DistanceLabel
    /\ status = "panic" => ~ENABLED Next
    /\ (status = "io_error" /\ pc[1] = 1) => (Labels = <<>> /\ ~ENABLED Next)
    /\ (status = "io_error" /\ pc[1] = 2) => (Labels = <<DistanceLabel>> /\ ~ENABLED Next)
    /\ status = "ok" => Labels = <<DistanceLabel, ScoreLabel>>

C10_Witness ==
    /\ status = "io_error"
    /\ pc = At(2, "open")
    /\ Labels = <<DistanceLabel>>
    /\ output[1].value = 11

====
